---- MODULE Spec2Model ----
(***************************************************************************)
(* LightNVM host-side flash translation layer, drivers/md/lightnvm/core.c. *)
(*                                                                         *)
(* The FTL instance (struct nvmd) is one record: its pools, blocks and     *)
(* append points are arrays indexed by id, as nvmd->pools[], ->blocks[]    *)
(* and ->aps[] are in the source.  Every C function of core.c is an        *)
(* operator from the instance to the instance after the call (and the      *)
(* value returned); the actions are the threads that call them: host       *)
(* submitters, the per-pool waiting_ws worker, the deferred_ws worker, the *)
(* device completing a bio, and the garbage collector.                     *)
(*                                                                         *)
(* lightnvm.h and gc.c are not part of the sources at hand; what is taken  *)
(* from them (config fields, block_is_full, block_to_addr, the address     *)
(* lock, the collector) is marked "lightnvm.h" / "gc.c" where defined.     *)
(*                                                                         *)
(* Granularity.  A step is a stretch of one thread that the others cannot  *)
(* tell from an atomic one: nvm_read_bio up to its submit (the address     *)
(* lock is held from its first line), the mapping of a write               *)
(* (nvm_alloc_addr_from_ap under ap->lock, then nvm_update_map under       *)
(* rev_lock: the address is locked and the page is new, so no thread reads *)
(* what lies between the two), then nvm_write_init_bio with                *)
(* nvm_submit_bio; nvm_endio in three steps (unlock and count, commit of   *)
(* the block, finish); the pool worker in two (pop, submit_bio).           *)
(*                                                                         *)
(* Left out: the mempools never run dry (mempool_alloc with its reserve),  *)
(* and the dev_wait pacing and the io_accesses counters of nvm_endio /     *)
(* nvm_submit_bio change no state the properties read.  A BUG_ON or a NULL *)
(* dereference sets nvmd.fatal and stops the machine; a WARN_ON sets       *)
(* nvmd.warned / nvmd.warned_cur.                                          *)
(*                                                                         *)
(* Specifications.  Spec is the whole FTL with two host bios and the       *)
(* collector, with and without NVM_OPT_POOL_SERIALIZE; FairOneHost is the  *)
(* same machine with one host thread and fair scheduling, SeqSpec the same *)
(* with one host writer over a longer run.  PbdSpec (the request wrapper   *)
(* and the error code of the device, which Spec leaves out), AllocSpec     *)
(* (block allocation with two append points) and PhysSpec (the cursor of a *)
(* block) take one part of core.c on its own; they use the same variables  *)
(* and leave those they do not need empty.                                 *)
(***************************************************************************)
EXTENDS Integers, Sequences, FiniteSets, TLC

VARIABLES
    nvmd,      \* struct nvmd: config, pools, blocks, aps, maps, queues
    bios,      \* the requests: each bio with its per_bio_data and position
    media,     \* the device: contents of each physical host page
    kbiod,     \* per pool, the thread running nvm_delayed_bio_submit
    kdefer,    \* the thread running nvm_deferred_bio_submit
    gc,        \* the garbage collector (gc.c)
    hist       \* observation only: what was handed to the device, in order

vars == <<nvmd, bios, media, kbiod, kdefer, gc, hist>>

----------------------------------------------------------------------------
(* Bounds of the model *)

\* host request slots: the number of host bios that can be inside the FTL
MaxReqs == 2
\* the host addresses logical pages 0 .. MaxLAddr-1
MaxLAddr == 2
\* a host write carries one of the payloads 1 .. MaxPayload
MaxPayload == 1
\* the host submits at most MaxOps requests in a run
MaxOps == 5

(* Configuration of the instance (set by the target constructor) *)

\* lightnvm.h: nvmd->nr_blks_per_pool
nr_blks_per_pool == 3
\* lightnvm.h: nvmd->nr_host_pages_in_blk
nr_host_pages_in_blk == 2
\* lightnvm.h: #define NR_HOST_PAGES_IN_FLASH_PAGE
NR_HOST_PAGES_IN_FLASH_PAGE == 1
\* lightnvm.h: #define NR_PHY_IN_LOG, device sectors per host page
NR_PHY_IN_LOG == 8
\* lightnvm.h: sentinels of the maps
LTOP_EMPTY == -1
LTOP_POISON == -2
\* a null pointer (block, bio, append point)
NULL == -1
\* a staging page nothing has been copied into yet
UNINIT == -1

READ == "READ"
WRITE == "WRITE"
NVM_OPT_POOL_SERIALIZE == "NVM_OPT_POOL_SERIALIZE"

\* the gc thread's own bio; host bios are 1 .. MaxReqs
GcBio == 0
HostBios == 1 .. MaxReqs
Bios == 0 .. MaxReqs
Payloads == 1 .. MaxPayload
\* block->data == NULL
NoData == << >>

Pools(nv) == 0 .. (nv.nr_aps - 1)
Blocks(nv) == 0 .. (nv.nr_aps * nr_blks_per_pool - 1)
\* nvmd->nr_pages
nr_pages(nv) == nv.nr_aps * nr_blks_per_pool * nr_host_pages_in_blk
Serialized(nv) == NVM_OPT_POOL_SERIALIZE \in nv.flags

\* e is evaluated once and F applied to its value
With(e, F(_)) == CHOOSE y \in {F(x) : x \in {e}} : TRUE

----------------------------------------------------------------------------
(* lightnvm.h helpers *)

\* block->pool
block_pool(b) == b \div nr_blks_per_pool

\* first physical address of the block
block_to_addr(b) == b * nr_host_pages_in_blk

\* the append point of the block's pool (pools and aps are 1:1)
block_to_ap(nv, b) == block_pool(b)

\* full when next_page alone has reached the number of flash pages
block_is_full_pages(blk) ==
    blk.next_page = nr_host_pages_in_blk \div NR_HOST_PAGES_IN_FLASH_PAGE

\* the block's write cursor has reached the end of the block
block_is_full(blk) ==
    (blk.next_page * NR_HOST_PAGES_IN_FLASH_PAGE) + blk.next_offset
        = nr_host_pages_in_blk

\* atomic_inc_return(&nvmd->next_write_ap) % nvmd->nr_aps
get_next_ap(nv) ==
    [nvmd |-> [nv EXCEPT !.next_write_ap = (@ + 1) % nv.nr_aps],
     ret  |-> (nv.next_write_ap + 1) % nv.nr_aps]

\* per-logical-address lock: the caller waits while the address is inflight
addr_is_locked(nv, l_addr) == l_addr \in nv.inflight

nvm_lock_addr(nv, l_addr) == [nv EXCEPT !.inflight = @ \cup {l_addr}]

\* releasing an address that is not inflight is a BUG
nvm_unlock_addr(nv, l_addr) ==
    IF l_addr \in nv.inflight
    THEN [nv EXCEPT !.inflight = @ \ {l_addr}]
    ELSE [nv EXCEPT !.fatal = TRUE]

\* gc.c: idempotent signal to the collector
nvm_gc_kick(nv) == [nv EXCEPT !.gc_kicked = TRUE]

----------------------------------------------------------------------------
(* core.c, in source order *)

\* core.c:35 -- bio_list_add appends at the tail
nvm_defer_bio(nv, bio) == [nv EXCEPT !.deferred_bios = Append(@, bio)]

\* the bit is set and the counter left alone
invalidate_block_page_nocount(nv, p) ==
    [nv EXCEPT
        !.warned = @ \/ ((p.addr % nr_host_pages_in_blk) \in nv.blocks[p.block].invalid_pages),
        !.blocks[p.block].invalid_pages = @ \cup {p.addr % nr_host_pages_in_blk}]

\* core.c:89
invalidate_block_page(nv, p) ==
    [nv EXCEPT
        \* WARN_ON(test_and_set_bit(...)): the counter is bumped all the same
        !.warned = @ \/ ((p.addr % nr_host_pages_in_blk) \in nv.blocks[p.block].invalid_pages),
        !.blocks[p.block].invalid_pages = @ \cup {p.addr % nr_host_pages_in_blk},
        !.blocks[p.block].nr_invalid_pages = @ + 1]

\* the forward entry is written and the reverse entry of the new page is not
nvm_update_map_norev(nv, l_addr, p, is_gc) ==
    IF l_addr >= nr_pages(nv) \/ p.addr >= nr_pages(nv)
    THEN [nv EXCEPT !.fatal = TRUE]
    ELSE
    With(nv.trans_map[l_addr], LAMBDA gp :
    With(IF gp.block # NULL
         THEN [invalidate_block_page(nv, gp) EXCEPT
                  !.rev_trans_map[gp.addr].addr = LTOP_POISON]
         ELSE nv, LAMBDA nv1 :
    [nv1 EXCEPT !.trans_map[l_addr] = [addr |-> p.addr, block |-> p.block]]))

\* the old page is invalidated and its reverse entry left as it was
nvm_update_map_nopoison(nv, l_addr, p, is_gc) ==
    IF l_addr >= nr_pages(nv) \/ p.addr >= nr_pages(nv)
    THEN [nv EXCEPT !.fatal = TRUE]
    ELSE
    With(nv.trans_map[l_addr], LAMBDA gp :
    With(IF gp.block # NULL THEN invalidate_block_page(nv, gp) ELSE nv, LAMBDA nv1 :
    [nv1 EXCEPT
        !.trans_map[l_addr] = [addr |-> p.addr, block |-> p.block],
        !.rev_trans_map[p.addr] = [addr |-> l_addr, trans_map |-> "trans_map"]]))

\* core.c:101
nvm_update_map(nv, l_addr, p, is_gc) ==
    IF l_addr >= nr_pages(nv) \/ p.addr >= nr_pages(nv)
    THEN [nv EXCEPT !.fatal = TRUE]
    ELSE
    With(nv.trans_map[l_addr], LAMBDA gp :
    With(IF gp.block # NULL
         THEN [invalidate_block_page(nv, gp) EXCEPT
                  !.rev_trans_map[gp.addr].addr = LTOP_POISON]
         ELSE nv, LAMBDA nv1 :
    [nv1 EXCEPT
        !.trans_map[l_addr] = [addr |-> p.addr, block |-> p.block],
        !.rev_trans_map[p.addr] = [addr |-> l_addr, trans_map |-> "trans_map"]]))

\* core.c:127
nvm_reset_block(nv, b) ==
    [nv EXCEPT !.blocks[b] =
        [@ EXCEPT !.invalid_pages = {},
                  !.ap = NULL,
                  !.next_page = 0,
                  !.next_offset = 0,
                  !.nr_invalid_pages = 0,
                  !.gc_running = 0,
                  !.data_size = 0,
                  !.data_cmnt_size = 0]]

\* the host is served like the collector: no reserve
nvm_pool_get_block_noreserve(nv, pool, is_gc) ==
    IF nv.pools[pool].free_list = << >>
    THEN [nvmd |-> nv, ret |-> NULL]
    ELSE
    With(Head(nv.pools[pool].free_list), LAMBDA block :
    With([nv EXCEPT !.pools[pool].free_list = Tail(@),
                    !.pools[pool].used_list = Append(@, block),
                    !.pools[pool].nr_free_blocks = @ - 1], LAMBDA nv1 :
    With(nvm_reset_block(nv1, block), LAMBDA nv2 :
    [nvmd |-> [nv2 EXCEPT
                  !.blocks[block].data = [i \in 1 .. nr_host_pages_in_blk |-> UNINIT],
                  !.blocks[block].prio_adds = 0],
     ret |-> block])))

\* core.c:154
nvm_pool_get_block(nv, pool, is_gc) ==
    IF nv.pools[pool].free_list = << >>
    THEN [nvmd |-> nv, ret |-> NULL]
    ELSE IF ~is_gc /\ nv.pools[pool].nr_free_blocks < nv.nr_aps
    THEN [nvmd |-> nv, ret |-> NULL]
    ELSE
    With(Head(nv.pools[pool].free_list), LAMBDA block :
    With([nv EXCEPT !.pools[pool].free_list = Tail(@),
                    !.pools[pool].used_list = Append(@, block),
                    !.pools[pool].nr_free_blocks = @ - 1], LAMBDA nv1 :
    With(nvm_reset_block(nv1, block), LAMBDA nv2 :
    [nvmd |-> [nv2 EXCEPT
                  \* a fresh staging buffer: nothing copied into its pages yet
                  !.blocks[block].data = [i \in 1 .. nr_host_pages_in_blk |-> UNINIT],
                  \* observation only: no prio_list append yet in this activation
                  !.blocks[block].prio_adds = 0],
     ret |-> block])))

\* list_move_tail: off whichever list holds it, to the tail of the other
ListDel(list, b) == SelectSeq(list, LAMBDA x : x # b)

\* the block is moved and nr_free_blocks left alone
nvm_pool_put_block_nocount(nv, block) ==
    [nv EXCEPT !.pools[block_pool(block)].used_list = ListDel(@, block),
               !.pools[block_pool(block)].free_list = Append(ListDel(@, block), block)]

\* core.c:194
nvm_pool_put_block(nv, block) ==
    [nv EXCEPT !.pools[block_pool(block)].used_list = ListDel(@, block),
               !.pools[block_pool(block)].free_list = Append(ListDel(@, block), block),
               !.pools[block_pool(block)].nr_free_blocks = @ + 1]

\* the offset is never taken back to 0 and next_page never advanced
nvm_alloc_phys_addr_nowrap(nv, block) ==
    IF block = NULL
    THEN [nvmd |-> [nv EXCEPT !.fatal = TRUE], ret |-> LTOP_EMPTY]
    ELSE
    With(nv.blocks[block], LAMBDA blk :
    IF block_is_full(blk)
    THEN [nvmd |-> nv, ret |-> LTOP_EMPTY]
    ELSE
    [nvmd |-> [nv EXCEPT !.blocks[block].next_offset = blk.next_offset + 1],
     ret  |-> block_to_addr(block) + (blk.next_page * NR_HOST_PAGES_IN_FLASH_PAGE)
                  + blk.next_offset])

\* core.c:206 (ps == NULL; the type has no alloc_phys_addr hook)
nvm_alloc_phys_addr(nv, block) ==
    IF block = NULL
    THEN [nvmd |-> [nv EXCEPT !.fatal = TRUE], ret |-> LTOP_EMPTY]
    ELSE
    With(nv.blocks[block], LAMBDA blk :
    IF block_is_full(blk)
    THEN [nvmd |-> nv, ret |-> LTOP_EMPTY]
    ELSE
    With(blk.next_offset = NR_HOST_PAGES_IN_FLASH_PAGE, LAMBDA wrap :
    With(IF wrap THEN 0 ELSE blk.next_offset, LAMBDA off :
    With(IF wrap THEN blk.next_page + 1 ELSE blk.next_page, LAMBDA page :
    [nvmd |-> [nv EXCEPT !.blocks[block].next_page = page,
                         !.blocks[block].next_offset = off + 1],
     ret  |-> block_to_addr(block) + (page * NR_HOST_PAGES_IN_FLASH_PAGE) + off]))))

\* core.c:257
nvm_set_ap_cur(nv, ap, block) ==
    With(nv.aps[ap].cur, LAMBDA cur :
    With(IF cur # NULL
         THEN [nv EXCEPT !.warned_cur = @ \/ ~block_is_full(nv.blocks[cur]),
                         !.blocks[cur].ap = NULL]
         ELSE nv, LAMBDA nv1 :
    [nv1 EXCEPT !.aps[ap].cur = block, !.blocks[block].ap = ap]))

\* the handle returned at "finished:" (core.c:317)
NoAddr == [addr |-> LTOP_EMPTY, block |-> NULL]

alloc_finished(nv, p_addr, p_block) ==
    IF p_addr = LTOP_EMPTY
    THEN [nvmd |-> [nv EXCEPT !.addr_pool = @ - 1], ret |-> NoAddr]
    ELSE [nvmd |-> nv, ret |-> [addr |-> p_addr, block |-> p_block]]

\* core.c:293-309: the collector's fallback to the gc block of the append point
alloc_addr_gc_cur(nv, ap, pool) ==
    With(nv.aps[ap].gc_cur, LAMBDA gc_cur :
    With(nvm_alloc_phys_addr(nv, gc_cur), LAMBDA a3 :
    IF a3.nvmd.fatal THEN [nvmd |-> a3.nvmd, ret |-> NoAddr]
    ELSE IF a3.ret # LTOP_EMPTY THEN alloc_finished(a3.nvmd, a3.ret, gc_cur)
    ELSE
    With(nvm_pool_get_block(a3.nvmd, pool, TRUE), LAMBDA g1 :
    With([g1.nvmd EXCEPT !.aps[ap].gc_cur = g1.ret], LAMBDA nv4 :
    IF g1.ret = NULL
    THEN \* core.c:298 stores through ap->gc_cur, which is NULL here: an oops
         [nvmd |-> [nv4 EXCEPT !.fatal = TRUE], ret |-> NoAddr]
    ELSE
    With(nvm_alloc_phys_addr([nv4 EXCEPT !.blocks[g1.ret].ap = ap], g1.ret), LAMBDA a4 :
    alloc_finished(a4.nvmd, a4.ret, g1.ret))))))

\* core.c:273 -- the caller holds ap->lock
nvm_alloc_addr_from_ap(nv, ap, is_gc) ==
    With(nv.aps[ap].cur, LAMBDA cur :
    With(nvm_alloc_phys_addr([nv EXCEPT !.addr_pool = @ + 1], cur), LAMBDA a1 :
    IF a1.nvmd.fatal THEN [nvmd |-> a1.nvmd, ret |-> NoAddr]
    ELSE IF a1.ret # LTOP_EMPTY THEN alloc_finished(a1.nvmd, a1.ret, cur)
    ELSE
    With(nvm_pool_get_block(a1.nvmd, block_pool(cur), FALSE), LAMBDA g0 :
    IF g0.ret # NULL
    THEN With(nvm_set_ap_cur(g0.nvmd, ap, g0.ret), LAMBDA nv2 :
         With(nvm_alloc_phys_addr(nv2, g0.ret), LAMBDA a2 :
         alloc_finished(a2.nvmd, a2.ret, g0.ret)))
    ELSE IF ~is_gc THEN alloc_finished(g0.nvmd, LTOP_EMPTY, NULL)
    ELSE alloc_addr_gc_cur(g0.nvmd, ap, block_pool(cur)))))

\* the lookup without its test of gc_running
nvm_lookup_ltop_map_nogc(nv, l_addr) ==
    IF ~(l_addr >= 0 /\ l_addr < nr_pages(nv))
    THEN [nvmd |-> [nv EXCEPT !.fatal = TRUE], ret |-> NoAddr, ok |-> FALSE]
    ELSE
    With(nv.trans_map[l_addr], LAMBDA gp :
    [nvmd |-> [nv EXCEPT !.addr_pool = @ + 1],
     ret |-> [addr |-> gp.addr, block |-> gp.block], ok |-> TRUE])

\* core.c:344, on the primary map (core.c:380 nvm_lookup_ltop)
nvm_lookup_ltop_map(nv, l_addr) ==
    IF ~(l_addr >= 0 /\ l_addr < nr_pages(nv))
    THEN [nvmd |-> [nv EXCEPT !.fatal = TRUE], ret |-> NoAddr, ok |-> FALSE]
    ELSE
    With(nv.trans_map[l_addr], LAMBDA gp :
    IF gp.block # NULL /\ nv.blocks[gp.block].gc_running # 0
    THEN [nvmd |-> nv, ret |-> NoAddr, ok |-> FALSE]
    ELSE [nvmd |-> [nv EXCEPT !.addr_pool = @ + 1],
          ret |-> [addr |-> gp.addr, block |-> gp.block], ok |-> TRUE])

\* core.c:406 the pool with most free blocks, the first of them on a tie
max_free_pool(nv) ==
    CHOOSE m \in Pools(nv) :
        /\ \A q \in Pools(nv) : nv.pools[q].nr_free_blocks <= nv.pools[m].nr_free_blocks
        /\ \A q \in Pools(nv) :
              nv.pools[q].nr_free_blocks = nv.pools[m].nr_free_blocks => m <= q

\* core.c:393
nvm_map_ltop_rr(nv, l_addr, is_gc) ==
    With(IF ~is_gc THEN get_next_ap(nv)
         ELSE [nvmd |-> nv, ret |-> max_free_pool(nv)], LAMBDA sel :
    With(nvm_alloc_addr_from_ap(sel.nvmd, sel.ret, is_gc), LAMBDA a :
    IF a.ret # NoAddr /\ ~a.nvmd.fatal
    THEN [nvmd |-> nvm_update_map(a.nvmd, l_addr, a.ret, is_gc), ret |-> a.ret]
    ELSE a))

----------------------------------------------------------------------------
(* The bio with its per_bio_data.  pc is where the request is:             *)
(*   idle      no request in this slot                                     *)
(*   zfill     nvm_read_bio has zero-filled and ended it (core.c:561)      *)
(*   mapped    nvm_write_bio has its address, before nvm_write_init_bio    *)
(*   deferred  parked on deferred_bios (or on the worker's private chain)  *)
(*   waiting   on the pool's waiting_bios                                  *)
(*   popped    taken by nvm_delayed_bio_submit, before its submit_bio      *)
(*   dev       handed to the device                                        *)
(*   endio_prio, endio_fin   inside nvm_endio                              *)
(*   done      a collector bio whose completion was signalled              *)
IdleBio ==
    [pc |-> "idle", rw |-> READ, bi_sector |-> 0, data |-> 0,
     dev_sector |-> 0, pages |-> << >>,
     addr |-> NoAddr, l_addr |-> NULL, sync |-> FALSE,
     \* observation only: the payload a read is to return
     expect |-> 0]

\* the bio is put at the head of the list
nvm_bio_wait_add_head(bl, bio) == <<bio>> \o bl

\* core.c:640
nvm_bio_wait_add(bl, bio) == Append(bl, bio)

\* every submitter queues the worker, whatever is_active was
submit_serialized_always(nv, pool, r) ==
    With(nvm_bio_wait_add(nv.pools[pool].waiting_bios, r), LAMBDA bl :
    [nv EXCEPT !.pools[pool].waiting_bios = bl,
               !.pools[pool].is_active = @ + 1,
               !.pools[pool].waiting_ws = TRUE])

\* core.c:679-701: push on waiting_bios; the first to raise is_active to 1
\* queues the worker
submit_serialized(nv, pool, r) ==
    With(nvm_bio_wait_add(nv.pools[pool].waiting_bios, r), LAMBDA bl :
    With(nv.pools[pool].is_active + 1, LAMBDA active :
    IF active # 1 \/ bl = << >>
    THEN [nv EXCEPT !.pools[pool].waiting_bios = bl]
    ELSE [nv EXCEPT !.pools[pool].waiting_bios = bl,
                    !.pools[pool].is_active = active,
                    !.pools[pool].waiting_ws = TRUE]))

\* core.c:646 -- r is the bio, b its fields
nvm_submit_bio(nv, r, b, p, l_addr, rw, sync) ==
    IF Serialized(nv)
    THEN [nvmd |-> submit_serialized(nv, block_to_ap(nv, p.block), r),
          bio  |-> [b EXCEPT !.addr = p, !.l_addr = l_addr, !.sync = sync,
                             !.rw = rw, !.pc = "waiting"]]
    ELSE [nvmd |-> nv,
          bio  |-> [b EXCEPT !.addr = p, !.l_addr = l_addr, !.sync = sync,
                             !.rw = rw, !.pc = "dev"]]

\* core.c:63, lines 69-79: the part under waiting_lock
nvm_delayed_bio_submit(nv, pool) ==
    With(nv.pools[pool].waiting_bios, LAMBDA bl :
    IF bl = << >>
    THEN [nvmd |-> [nv EXCEPT !.pools[pool].cur_bio = NULL,
                              !.pools[pool].is_active = @ - 1],
          ret |-> NULL]
    ELSE [nvmd |-> [nv EXCEPT !.pools[pool].cur_bio = Head(bl),
                              !.pools[pool].waiting_bios = Tail(bl)],
          ret |-> Head(bl)])

\* core.c:549-567: nvm_read_bio once lookup_ltop has returned lk
read_bio_looked_up(lk, r, b, l_addr) ==
    IF lk.nvmd.fatal THEN [nvmd |-> lk.nvmd, bio |-> b]
    ELSE IF ~lk.ok
    THEN [nvmd |-> nvm_gc_kick(nvm_defer_bio(nvm_unlock_addr(lk.nvmd, l_addr), r)),
          bio  |-> [b EXCEPT !.pc = "deferred"]]
    ELSE IF lk.ret.block = NULL
    THEN \* nvm_fill_bio_and_end (core.c:338): zero_fill_bio, bio_endio(bio, 0)
         [nvmd |-> lk.nvmd,
          bio  |-> [b EXCEPT !.pc = "zfill", !.bi_sector = 0, !.data = 0,
                             !.addr = lk.ret, !.l_addr = l_addr]]
    ELSE With(lk.ret.addr * NR_PHY_IN_LOG + (b.bi_sector % NR_PHY_IN_LOG), LAMBDA sector :
         nvm_submit_bio(lk.nvmd, r, [b EXCEPT !.dev_sector = sector, !.bi_sector = sector],
                        lk.ret, l_addr, READ, FALSE))

\* the read path without its nvm_lock_addr
nvm_read_bio_unlocked(nv, r, b) ==
    With(b.bi_sector \div NR_PHY_IN_LOG, LAMBDA l_addr :
    With(nvm_lookup_ltop_map(nv, l_addr), LAMBDA lk :
    read_bio_looked_up(lk, r, b, l_addr)))

\* core.c:538
nvm_read_bio(nv, r, b) ==
    With(b.bi_sector \div NR_PHY_IN_LOG, LAMBDA l_addr :
    With(nvm_lookup_ltop_map(nvm_lock_addr(nv, l_addr), l_addr), LAMBDA lk :
    read_bio_looked_up(lk, r, b, l_addr)))

\* the zero-fill branch returning with the address still locked
nvm_read_bio_finished_locked(nv, b) == [nv EXCEPT !.addr_pool = @ - 1]

\* core.c:562-563: the end of the zero-fill branch
nvm_read_bio_finished(nv, b) ==
    nvm_unlock_addr([nv EXCEPT !.addr_pool = @ - 1], b.l_addr)

\* the mapping has failed and the bio is neither parked nor its lock released
nvm_write_bio_lost(nv, r, b, is_gc, sync) ==
    With(b.bi_sector \div NR_PHY_IN_LOG, LAMBDA l_addr :
    With(nvm_map_ltop_rr(nv, l_addr, is_gc), LAMBDA m :
    IF m.nvmd.fatal THEN [nvmd |-> m.nvmd, bio |-> b]
    ELSE IF m.ret = NoAddr
    THEN IF is_gc
         THEN [nvmd |-> [m.nvmd EXCEPT !.fatal = TRUE], bio |-> b]
         ELSE [nvmd |-> nvm_gc_kick(m.nvmd),
               bio  |-> [b EXCEPT !.pc = "deferred"]]
    ELSE [nvmd |-> m.nvmd,
          bio  |-> [b EXCEPT !.pc = "mapped", !.addr = m.ret, !.l_addr = l_addr,
                             !.sync = sync]]))

\* core.c:610, lines 617-627: map the address, or defer
nvm_write_bio(nv, r, b, is_gc, sync) ==
    With(b.bi_sector \div NR_PHY_IN_LOG, LAMBDA l_addr :
    With(nvm_map_ltop_rr(nv, l_addr, is_gc), LAMBDA m :
    IF m.nvmd.fatal THEN [nvmd |-> m.nvmd, bio |-> b]
    ELSE IF m.ret = NoAddr
    THEN IF is_gc
         THEN [nvmd |-> [m.nvmd EXCEPT !.fatal = TRUE], bio |-> b]
         ELSE [nvmd |-> nvm_gc_kick(nvm_defer_bio(nvm_unlock_addr(m.nvmd, l_addr), r)),
               bio  |-> [b EXCEPT !.pc = "deferred"]]
    ELSE [nvmd |-> m.nvmd,
          bio  |-> [b EXCEPT !.pc = "mapped", !.addr = m.ret, !.l_addr = l_addr,
                             !.sync = sync]]))

\* core.c:572: copy the payload into the staging page of the address and
\* return the new data_size
nvm_bv_copy(nv, p, payload) ==
    IF nv.blocks[p.block].data = NoData
    THEN [nvmd |-> [nv EXCEPT !.fatal = TRUE], ret |-> 0]
    ELSE [nvmd |-> [nv EXCEPT
                      !.blocks[p.block].data[(p.addr % nr_host_pages_in_blk) + 1] = payload,
                      !.blocks[p.block].data_size = @ + 1],
          ret  |-> nv.blocks[p.block].data_size + 1]

\* core.c:590: the device-facing bio, carrying the staging pages
\* size - NR_HOST_PAGES_IN_FLASH_PAGE + i
nvm_write_init_bio(nv, b) ==
    With(nvm_bv_copy(nv, b.addr, b.data), LAMBDA cp :
    [nvmd |-> cp.nvmd,
     bio  |-> [b EXCEPT !.dev_sector = b.addr.addr * NR_PHY_IN_LOG,
                        !.pages = [i \in 1 .. NR_HOST_PAGES_IN_FLASH_PAGE |->
                                     cp.ret - NR_HOST_PAGES_IN_FLASH_PAGE + (i - 1)]]])

\* core.c:629-637: the rest of nvm_write_bio
nvm_write_bio_issue(nv, r, b) ==
    With(nvm_write_init_bio(nv, b), LAMBDA ib :
    IF ib.nvmd.fatal THEN ib
    ELSE nvm_submit_bio(ib.nvmd, r, ib.bio, b.addr, b.l_addr, WRITE, b.sync))

\* the completion counts the write and leaves the address locked
nvm_endio_nounlock(nv, b) ==
    IF b.rw = WRITE
    THEN [nvmd |-> [nv EXCEPT !.blocks[b.addr.block].data_cmnt_size = @ + 1],
          full |-> nv.blocks[b.addr.block].data_cmnt_size + 1 = nr_host_pages_in_blk]
    ELSE [nvmd |-> nv, full |-> FALSE]

\* core.c:431, lines 443-455: unlock, count a completed write
nvm_endio(nv, b) ==
    With(nvm_unlock_addr(nv, b.l_addr), LAMBDA nv1 :
    IF b.rw = WRITE
    THEN [nvmd |-> [nv1 EXCEPT !.blocks[b.addr.block].data_cmnt_size = @ + 1],
          full |-> nv1.blocks[b.addr.block].data_cmnt_size + 1 = nr_host_pages_in_blk]
    ELSE [nvmd |-> nv1, full |-> FALSE])

\* the staging buffer is freed and block->data keeps pointing at it
nvm_endio_commit_keepdata(nv, b) ==
    [nv EXCEPT !.pools[block_to_ap(nv, b.addr.block)].prio_list = Append(@, b.addr.block),
               !.blocks[b.addr.block].prio_adds = @ + 1]

\* core.c:456-461: the block is committed: free the staging buffer, make
\* the block a candidate of the collector
nvm_endio_commit(nv, b) ==
    [nv EXCEPT !.blocks[b.addr.block].data = NoData,
               !.pools[block_to_ap(nv, b.addr.block)].prio_list = Append(@, b.addr.block),
               \* observation only
               !.blocks[b.addr.block].prio_adds = @ + 1]

\* cur_bio is cleared and the worker is not queued again
endio_pool_next_noqueue(nv, pool) ==
    IF Serialized(nv)
    THEN [nv EXCEPT !.pools[pool].cur_bio = NULL]
    ELSE nv

\* core.c:488-497: let the serialized pool advance
endio_pool_next(nv, pool) ==
    IF Serialized(nv)
    THEN [nv EXCEPT !.pools[pool].cur_bio = NULL, !.pools[pool].waiting_ws = TRUE]
    ELSE nv

\* core.c:488-518: advance the serialized pool, complete upstream, free
nvm_endio_finish(nv, b) ==
    IF b.sync /\ b.rw = READ
    THEN endio_pool_next(nv, block_to_ap(nv, b.addr.block))
    ELSE [endio_pool_next(nv, block_to_ap(nv, b.addr.block)) EXCEPT !.addr_pool = @ - 1]

\* the type's write_bio entry (the map function of the target and
\* nvm_deferred_bio_submit call it with the bio alone): lock, then write
type_write_bio(nv, r, b) ==
    nvm_write_bio(nvm_lock_addr(nv, b.bi_sector \div NR_PHY_IN_LOG), r, b, FALSE, FALSE)

----------------------------------------------------------------------------
(* The instance after construction: every append point has taken its      *)
(* current block and its gc block from its pool, the rest is free.         *)

BlankBlock ==
    [next_page |-> 0, next_offset |-> 0, invalid_pages |-> {},
     nr_invalid_pages |-> 0, gc_running |-> 0, data_size |-> 0,
     data_cmnt_size |-> 0, data |-> NoData, ap |-> NULL, prio_adds |-> 0]

BlankPool(i, naps) ==
    [free_list |-> [k \in 1 .. nr_blks_per_pool |-> i * nr_blks_per_pool + k - 1],
     used_list |-> << >>, prio_list |-> << >>,
     nr_free_blocks |-> nr_blks_per_pool,
     waiting_bios |-> << >>, is_active |-> 0, cur_bio |-> NULL,
     \* work pending on kbiod_wq
     waiting_ws |-> FALSE]

BlankNvmd(naps, flags) ==
    [nr_aps |-> naps, flags |-> flags,
     pools  |-> [i \in 0 .. naps - 1 |-> BlankPool(i, naps)],
     blocks |-> [b \in 0 .. naps * nr_blks_per_pool - 1 |-> BlankBlock],
     aps    |-> [i \in 0 .. naps - 1 |-> [cur |-> NULL, gc_cur |-> NULL]],
     trans_map |-> [l \in 0 .. naps * nr_blks_per_pool * nr_host_pages_in_blk - 1 |->
                        [addr |-> LTOP_EMPTY, block |-> NULL]],
     rev_trans_map |-> [q \in 0 .. naps * nr_blks_per_pool * nr_host_pages_in_blk - 1 |->
                        [addr |-> LTOP_EMPTY, trans_map |-> "none"]],
     inflight |-> {}, deferred_bios |-> << >>, next_write_ap |-> 0,
     gc_kicked |-> FALSE, addr_pool |-> 0, fatal |-> FALSE,
     \* the WARN_ONs of invalidate_block_page and of nvm_set_ap_cur have fired
     warned |-> FALSE, warned_cur |-> FALSE]

\* the constructor gives append point i its two blocks
nvm_ap_init(nv, i) ==
    With(nvm_pool_get_block(nv, i, FALSE), LAMBDA g0 :
    With(nvm_set_ap_cur(g0.nvmd, i, g0.ret), LAMBDA nv1 :
    With(nvm_pool_get_block(nv1, i, TRUE), LAMBDA g1 :
    [g1.nvmd EXCEPT !.aps[i].gc_cur = g1.ret, !.blocks[g1.ret].ap = i])))

RECURSIVE nvm_aps_init(_, _)
nvm_aps_init(nv, i) ==
    IF i = nv.nr_aps THEN nv
    ELSE With(nvm_ap_init(nv, i), LAMBDA nv1 : nvm_aps_init(nv1, i + 1))

nvm_init(naps, flags) == nvm_aps_init(BlankNvmd(naps, flags), 0)

InitWith(naps, flagsets) ==
    /\ nvmd \in {nvm_init(naps, f) : f \in flagsets}
    /\ bios = [r \in Bios |-> IdleBio]
    /\ media = [q \in 0 .. naps * nr_blks_per_pool * nr_host_pages_in_blk - 1 |-> 0]
    /\ kbiod = [i \in 0 .. naps - 1 |-> [pc |-> "idle", bio |-> NULL]]
    /\ kdefer = [pending |-> FALSE, chain |-> << >>]
    /\ gc = [pc |-> "idle", block |-> NULL, addr |-> LTOP_EMPTY, l_addr |-> NULL]
    /\ hist = [pushed  |-> [i \in 0 .. naps - 1 |-> << >>],
               written |-> [l \in 0 .. naps * nr_blks_per_pool * nr_host_pages_in_blk - 1 |-> 0],
               ops     |-> 0]

Init == InitWith(1, {{}, {NVM_OPT_POOL_SERIALIZE}})

----------------------------------------------------------------------------
(* Actions *)

Running == ~nvmd.fatal

\* observation: a bio that nvm_submit_bio pushed on waiting_bios
Pushed(h, nv, r, b) ==
    IF b.pc = "waiting"
    THEN [h EXCEPT !.pushed[block_to_ap(nv, b.addr.block)] = Append(@, r)]
    ELSE h

\* a host thread takes the free bio with the least index (the indices only
\* name the bios)
FreeBio(r) ==
    /\ Running
    /\ r \in HostBios
    /\ hist.ops < MaxOps
    /\ bios[r].pc = "idle"
    /\ \A q \in HostBios : q < r => bios[q].pc # "idle"

\* the read entry of the target: nvm_read_bio, up to its first return
DoRead(r, b) ==
    \E l_addr \in {b.bi_sector \div NR_PHY_IN_LOG}, res \in {nvm_read_bio(nvmd, r, b)} :
        /\ ~addr_is_locked(nvmd, l_addr)
        /\ nvmd' = res.nvmd
        /\ bios' = [bios EXCEPT ![r] =
                      [res.bio EXCEPT !.expect =
                          IF res.bio.pc = "deferred" THEN 0 ELSE hist.written[l_addr]]]
        /\ hist' = Pushed([hist EXCEPT !.ops = IF b.pc = "idle" THEN @ + 1 ELSE @],
                          nvmd, r, res.bio)

\* the write entry of the target: lock, nvm_write_bio up to the mapping
DoWrite(r, b) ==
    \E l_addr \in {b.bi_sector \div NR_PHY_IN_LOG}, res \in {type_write_bio(nvmd, r, b)} :
        /\ ~addr_is_locked(nvmd, l_addr)
        /\ nvmd' = res.nvmd
        /\ bios' = [bios EXCEPT ![r] = res.bio]
        /\ hist' = [hist EXCEPT
                      !.ops = IF b.pc = "idle" THEN @ + 1 ELSE @,
                      !.written[l_addr] = IF res.bio.pc = "mapped" THEN b.data ELSE @]

HostRead(r) ==
    /\ FreeBio(r)
    /\ \E l \in 0 .. MaxLAddr - 1 :
          DoRead(r, [IdleBio EXCEPT !.rw = READ, !.bi_sector = l * NR_PHY_IN_LOG])
    /\ UNCHANGED <<media, kbiod, kdefer, gc>>

HostWrite(r) ==
    /\ FreeBio(r)
    /\ \E l \in 0 .. MaxLAddr - 1, v \in Payloads :
          DoWrite(r, [IdleBio EXCEPT !.rw = WRITE, !.bi_sector = l * NR_PHY_IN_LOG,
                                     !.data = v])
    /\ UNCHANGED <<media, kbiod, kdefer, gc>>

\* nvm_read_bio, zero-fill branch: free the handle, unlock, return
ReadFinished(r) ==
    /\ Running
    /\ bios[r].pc = "zfill"
    /\ nvmd' = nvm_read_bio_finished(nvmd, bios[r])
    /\ bios' = [bios EXCEPT ![r] = IdleBio]
    /\ UNCHANGED <<media, kbiod, kdefer, gc, hist>>

\* nvm_write_bio after the mapping: nvm_write_init_bio and nvm_submit_bio
WriteIssue(r) ==
    /\ Running
    /\ bios[r].pc = "mapped"
    /\ \E res \in {nvm_write_bio_issue(nvmd, r, bios[r])} :
           /\ nvmd' = res.nvmd
           /\ bios' = [bios EXCEPT ![r] = res.bio]
           /\ hist' = Pushed(hist, nvmd, r, res.bio)
    /\ UNCHANGED <<media, kbiod, kdefer, gc>>

\* kbiod_wq runs waiting_ws: a work item runs on one thread at a time, and
\* queueing it while it runs makes it run once more afterwards
WorkerRun(pool) ==
    /\ Running
    /\ nvmd.pools[pool].waiting_ws
    /\ kbiod[pool].pc = "idle"
    /\ \E res \in {nvm_delayed_bio_submit(
                        [nvmd EXCEPT !.pools[pool].waiting_ws = FALSE], pool)} :
           /\ nvmd' = res.nvmd
           /\ kbiod' = [kbiod EXCEPT ![pool] =
                           IF res.ret = NULL THEN [pc |-> "idle", bio |-> NULL]
                           ELSE [pc |-> "submit", bio |-> res.ret]]
           /\ bios' = IF res.ret = NULL THEN bios
                      ELSE [bios EXCEPT ![res.ret].pc = "popped"]
    /\ UNCHANGED <<media, kdefer, gc, hist>>

\* core.c:85: the worker hands the bio to the device
WorkerSubmit(pool) ==
    /\ Running
    /\ kbiod[pool].pc = "submit"
    /\ bios' = [bios EXCEPT ![kbiod[pool].bio].pc = "dev"]
    /\ kbiod' = [kbiod EXCEPT ![pool] = [pc |-> "idle", bio |-> NULL]]
    /\ hist' = [hist EXCEPT !.pushed[pool] = ListDel(@, kbiod[pool].bio)]
    /\ UNCHANGED <<nvmd, media, kdefer, gc>>

\* what the device finds in staging page idx of the block when it writes
StagedPage(nv, block, idx) ==
    IF nv.blocks[block].data = NoData \/ idx \notin 0 .. nr_host_pages_in_blk - 1
    THEN UNINIT
    ELSE nv.blocks[block].data[idx + 1]

\* the device performs the transfer and calls bi_end_io: nvm_end_read_bio or
\* nvm_end_write_bio, that is nvm_endio up to the count of the write
DeviceComplete(r) ==
    /\ Running
    /\ bios[r].pc = "dev"
    /\ \E b \in {bios[r]}, res \in {nvm_endio(nvmd, bios[r])} :
       LET page == b.dev_sector \div NR_PHY_IN_LOG
           next == IF res.full THEN "endio_prio" ELSE "endio_fin"
       IN  /\ nvmd' = res.nvmd
           /\ IF b.rw = READ
              THEN /\ media' = media
                   /\ bios' = [bios EXCEPT ![r].pc = next, ![r].data = media[page]]
              ELSE /\ \E vals \in [1 .. NR_HOST_PAGES_IN_FLASH_PAGE -> 0 .. MaxPayload] :
                        /\ \A i \in 1 .. NR_HOST_PAGES_IN_FLASH_PAGE :
                              LET sv == StagedPage(nvmd, b.addr.block, b.pages[i])
                              IN  sv # UNINIT => vals[i] = sv
                        /\ media' = [q \in DOMAIN media |->
                                       IF q - page + 1 \in 1 .. NR_HOST_PAGES_IN_FLASH_PAGE
                                       THEN vals[q - page + 1] ELSE media[q]]
                   /\ bios' = [bios EXCEPT ![r].pc = next]
    /\ UNCHANGED <<kbiod, kdefer, gc, hist>>

\* nvm_endio, core.c:456-461
EndioCommit(r) ==
    /\ Running
    /\ bios[r].pc = "endio_prio"
    /\ nvmd' = nvm_endio_commit(nvmd, bios[r])
    /\ bios' = [bios EXCEPT ![r].pc = "endio_fin"]
    /\ UNCHANGED <<media, kbiod, kdefer, gc, hist>>

\* nvm_endio, core.c:488-518; a host bio is gone after its completion, the
\* collector waits for the completion of its own
EndioFinish(r) ==
    /\ Running
    /\ bios[r].pc = "endio_fin"
    /\ nvmd' = nvm_endio_finish(nvmd, bios[r])
    /\ bios' = [bios EXCEPT ![r] =
                  IF r = GcBio
                  THEN [IdleBio EXCEPT !.pc = "done", !.data = bios[r].data]
                  ELSE IdleBio]
    /\ UNCHANGED <<media, kbiod, kdefer, gc, hist>>

\* core.c:42, lines 47-49: the worker takes the whole deferred list
DeferredRun ==
    /\ Running
    /\ kdefer.pending
    /\ kdefer.chain = << >>
    /\ kdefer' = [pending |-> FALSE, chain |-> nvmd.deferred_bios]
    /\ nvmd' = [nvmd EXCEPT !.deferred_bios = << >>]
    /\ UNCHANGED <<bios, media, kbiod, gc, hist>>

\* the worker walks its chain and dispatches nothing
DeferredDispatch_skip ==
    /\ Running
    /\ kdefer.chain # << >>
    /\ kdefer' = [kdefer EXCEPT !.chain = Tail(@)]
    /\ UNCHANGED <<nvmd, bios, media, kbiod, gc, hist>>

\* core.c:51-59: and dispatches each bio by its direction
DeferredDispatch ==
    /\ Running
    /\ kdefer.chain # << >>
    /\ \E r \in {Head(kdefer.chain)} :
           IF bios[r].rw = WRITE
           THEN DoWrite(r, bios[r])
           ELSE DoRead(r, bios[r])
    /\ kdefer' = [kdefer EXCEPT !.chain = Tail(@)]
    /\ UNCHANGED <<media, kbiod, gc>>

----------------------------------------------------------------------------
(* The collector (gc.c).  It takes a committed block off prio_list and     *)
(* marks it gc_running; for each page still valid it locks the logical     *)
(* address the reverse map names, reads the page through nvm_submit_bio    *)
(* with a completion, locks the address again and writes the page with     *)
(* nvm_write_bio(is_gc = 1); when no page of the block is valid it returns *)
(* the block with nvm_pool_put_block and queues deferred_ws.               *)

ValidPages(nv, b) ==
    {o \in 0 .. nr_host_pages_in_blk - 1 : o \notin nv.blocks[b].invalid_pages}

GcReady ==
    \/ gc.pc = "collect"
    \/ gc.pc = "write" /\ bios[GcBio].pc = "done"

GcPick ==
    /\ Running
    /\ gc.pc = "idle"
    /\ \E pool \in Pools(nvmd) :
          /\ nvmd.pools[pool].nr_free_blocks < nvmd.nr_aps
          /\ \E k \in 1 .. Len(nvmd.pools[pool].prio_list) :
               LET b == nvmd.pools[pool].prio_list[k]
               IN  /\ nvmd' = [nvmd EXCEPT !.pools[pool].prio_list = ListDel(@, b),
                                           !.blocks[b].gc_running = 1,
                                           !.gc_kicked = FALSE]
                   /\ gc' = [gc EXCEPT !.pc = "collect", !.block = b]
    /\ UNCHANGED <<bios, media, kbiod, kdefer, hist>>

GcRead ==
    /\ Running
    /\ GcReady
    /\ ValidPages(nvmd, gc.block) # {}
    /\ \E o \in ValidPages(nvmd, gc.block) :
       /\ \A y \in ValidPages(nvmd, gc.block) : o <= y
       /\ \E p \in {block_to_addr(gc.block) + o} :
          \E l \in {nvmd.rev_trans_map[p].addr} :
          \E res \in {nvm_submit_bio(nvm_lock_addr(nvmd, l), GcBio,
                          [IdleBio EXCEPT !.bi_sector = p * NR_PHY_IN_LOG,
                                          !.dev_sector = p * NR_PHY_IN_LOG],
                          [addr |-> p, block |-> gc.block], l, READ, TRUE)} :
           /\ l >= 0
           /\ ~addr_is_locked(nvmd, l)
           /\ nvmd' = res.nvmd
           /\ bios' = [bios EXCEPT ![GcBio] = res.bio]
           /\ hist' = Pushed(hist, nvmd, GcBio, res.bio)
           /\ gc' = [gc EXCEPT !.pc = "read", !.addr = p, !.l_addr = l]
    /\ UNCHANGED <<media, kbiod, kdefer>>

GcWrite ==
    /\ Running
    /\ gc.pc = "read"
    /\ bios[GcBio].pc = "done"
    /\ ~addr_is_locked(nvmd, gc.l_addr)
    /\ IF nvmd.rev_trans_map[gc.addr].addr # gc.l_addr
       THEN \* the host has overwritten the address meanwhile
            /\ nvmd' = nvmd
            /\ bios' = [bios EXCEPT ![GcBio] = IdleBio]
            /\ gc' = [gc EXCEPT !.pc = "collect", !.addr = LTOP_EMPTY, !.l_addr = NULL]
       ELSE \E res \in {nvm_write_bio(nvm_lock_addr(nvmd, gc.l_addr), GcBio,
                          [IdleBio EXCEPT !.rw = WRITE,
                                          !.bi_sector = gc.l_addr * NR_PHY_IN_LOG,
                                          !.data = bios[GcBio].data],
                          TRUE, TRUE)} :
                /\ nvmd' = res.nvmd
                /\ bios' = [bios EXCEPT ![GcBio] = res.bio]
                /\ gc' = [gc EXCEPT !.pc = "write", !.addr = LTOP_EMPTY, !.l_addr = NULL]
    /\ UNCHANGED <<media, kbiod, kdefer, hist>>

GcPut ==
    /\ Running
    /\ GcReady
    /\ ValidPages(nvmd, gc.block) = {}
    /\ nvmd' = nvm_pool_put_block(nvmd, gc.block)
    /\ bios' = [bios EXCEPT ![GcBio] = IdleBio]
    /\ kdefer' = [kdefer EXCEPT !.pending = TRUE]
    /\ gc' = [pc |-> "idle", block |-> NULL, addr |-> LTOP_EMPTY, l_addr |-> NULL]
    /\ UNCHANGED <<media, kbiod, hist>>

----------------------------------------------------------------------------

\* a BUG or an oops stops the machine: no action is enabled after it
Next ==
    \/ \E r \in HostBios : HostRead(r)
    \/ \E r \in HostBios : HostWrite(r)
    \/ \E r \in HostBios : ReadFinished(r)
    \/ \E r \in Bios : WriteIssue(r)
    \/ \E r \in Bios : DeviceComplete(r)
    \/ \E r \in Bios : EndioCommit(r)
    \/ \E r \in Bios : EndioFinish(r)
    \/ \E pool \in Pools(nvmd) : WorkerRun(pool)
    \/ \E pool \in Pools(nvmd) : WorkerSubmit(pool)
    \/ DeferredRun
    \/ DeferredDispatch
    \/ GcPick
    \/ GcRead
    \/ GcWrite
    \/ GcPut

Spec == Init /\ [][Next]_vars

----------------------------------------------------------------------------
(* Properties *)

InList(list, b) == \E k \in 1 .. Len(list) : list[k] = b

\* the logical address a read bio asks for, before nvm_read_bio rewrites
\* bi_sector to the physical sector
ReadLAddr(b) == b.bi_sector \div NR_PHY_IN_LOG

\* the requests of the pool that were handed to the device and whose
\* nvm_endio has not returned
InFlight(pool) ==
    {r \in Bios : /\ bios[r].pc \in {"dev", "endio_prio", "endio_fin"}
                  /\ block_to_ap(nvmd, bios[r].addr.block) = pool}

\* C1: with NVM_OPT_POOL_SERIALIZE set, every pool has at most one request
\* handed to the device and not yet completed, in every interleaving of the
\* submitters, the pool's worker and the completions.
C1_PoolSerialize ==
    Serialized(nvmd) => \A pool \in Pools(nvmd) : Cardinality(InFlight(pool)) <= 1

\* one request of the pool is at the device while another waits its turn
C1_Witness ==
    /\ Serialized(nvmd)
    /\ \E pool \in Pools(nvmd) :
          /\ \E r \in InFlight(pool) : bios[r].pc = "dev"
          /\ nvmd.pools[pool].waiting_bios # << >>

\* C2: with NVM_OPT_POOL_SERIALIZE set, the bio the pool's worker hands to
\* the device is always the one that was pushed on waiting_bios first among
\* those not yet handed over: the device sees the pool's requests in the
\* order of their push (FIFO).
C2_Fifo ==
    \A pool \in Pools(nvmd) :
        /\ kbiod[pool].pc = "submit" =>
              /\ hist.pushed[pool] # << >>
              /\ kbiod[pool].bio = Head(hist.pushed[pool])
              /\ Tail(hist.pushed[pool]) = nvmd.pools[pool].waiting_bios
        /\ kbiod[pool].pc # "submit" => hist.pushed[pool] = nvmd.pools[pool].waiting_bios

\* the worker is about to hand over a bio while a later one waits behind it
C2_Witness ==
    \E pool \in Pools(nvmd) :
        /\ kbiod[pool].pc = "submit"
        /\ Len(hist.pushed[pool]) >= 2

\* the requests on logical address l that are between their translation and
\* the nvm_unlock_addr of their completion (or of the zero-fill branch)
Translated(l) ==
    {r \in Bios : /\ bios[r].l_addr = l
                  /\ bios[r].pc \in {"zfill", "mapped", "waiting", "popped", "dev"}}

\* C3: for every logical address at most one request is between its
\* translation and its completion, and it holds the address lock for all of
\* that time, so that a second request on the address waits in nvm_lock_addr.
C3_AddrSerialized ==
    \A l \in 0 .. MaxLAddr - 1 :
        /\ Cardinality(Translated(l)) <= 1
        /\ Translated(l) # {} => addr_is_locked(nvmd, l)

\* a read of l is at the device with the lock of l, which the write of l
\* before it had held until its completion
C3_Witness ==
    \E l \in 0 .. MaxLAddr - 1 : \E r \in Translated(l) :
        /\ bios[r].pc = "dev"
        /\ bios[r].rw = READ
        /\ hist.written[l] # 0
        /\ addr_is_locked(nvmd, l)

\* C4: every forward entry with a block set, trans_map[l] = (p, b), has
\* rev_trans_map[p] = (l, trans_map) and p inside the address range of b,
\* after any sequence of host and collector writes.
C4_MapConsistent ==
    \A l \in DOMAIN nvmd.trans_map :
        LET e == nvmd.trans_map[l]
        IN  e.block # NULL =>
              /\ nvmd.rev_trans_map[e.addr] = [addr |-> l, trans_map |-> "trans_map"]
              /\ e.addr \in block_to_addr(e.block) ..
                            block_to_addr(e.block) + nr_host_pages_in_blk - 1

\* the collector has just moved a page that the host had written, and an
\* older page of some address is poisoned by an overwrite
C4_Witness ==
    /\ bios[GcBio].pc = "mapped"
    /\ bios[GcBio].rw = WRITE
    /\ nvmd.trans_map[bios[GcBio].l_addr] = bios[GcBio].addr
    /\ \E q \in DOMAIN nvmd.rev_trans_map : nvmd.rev_trans_map[q].addr = LTOP_POISON

\* C5: in every pool nr_free_blocks is the number of blocks on free_list,
\* across every interleaving of nvm_pool_get_block and nvm_pool_put_block.
C5_FreeCount ==
    \A pool \in Pools(nvmd) :
        nvmd.pools[pool].nr_free_blocks = Len(nvmd.pools[pool].free_list)

\* a block the collector has put back is on free_list (put_block does not
\* reset gc_running, the next get_block does)
C5_Witness ==
    \E b \in Blocks(nvmd) :
        /\ InList(nvmd.pools[block_pool(b)].free_list, b)
        /\ nvmd.blocks[b].gc_running # 0

\* C6: for every block the number of bits set in invalid_pages is
\* nr_invalid_pages, across invalidate_block_page and nvm_reset_block.
C6_InvalidCount ==
    \A b \in Blocks(nvmd) :
        Cardinality(nvmd.blocks[b].invalid_pages) = nvmd.blocks[b].nr_invalid_pages

\* a block has an invalid page, and another one that the collector had
\* taken (it came back to the tail of used_list) was reset and is written
\* again
C6_Witness ==
    \E b, c \in Blocks(nvmd) :
        LET used == nvmd.pools[block_pool(c)].used_list
        IN  /\ nvmd.blocks[b].nr_invalid_pages > 0
            /\ nvmd.blocks[c].nr_invalid_pages = 0
            /\ nvmd.blocks[c].data_size > 0
            /\ used # << >>
            /\ used[Len(used)] = c
            /\ c < used[1]

\* C7 as stated: every block whose data_cmnt_size is nr_host_pages_in_blk has
\* data null and is on the prio_list of its pool.
C7_Stated ==
    \A b \in Blocks(nvmd) :
        nvmd.blocks[b].data_cmnt_size = nr_host_pages_in_blk =>
            /\ nvmd.blocks[b].data = NoData
            /\ InList(nvmd.pools[block_pool(b)].prio_list, b)

\* the completion that counted the last page of b is between its
\* atomic_inc_return (core.c:454) and the end of its commit (core.c:461)
Committing(b) ==
    \E r \in Bios : bios[r].pc = "endio_prio" /\ bios[r].addr.block = b

\* C7 as amended: a block whose data_cmnt_size is nr_host_pages_in_blk, once
\* the completion that counted its last page is past core.c:461, has data
\* null and was appended to prio_list exactly once in this activation, where
\* it stays until the collector takes it (gc_running set); a block that is
\* not yet fully committed was not appended and is not on prio_list.
C7_Committed ==
    \A b \in Blocks(nvmd) :
        /\ nvmd.blocks[b].data_cmnt_size <= nr_host_pages_in_blk
        /\ nvmd.blocks[b].data_cmnt_size = nr_host_pages_in_blk /\ ~Committing(b) =>
              /\ nvmd.blocks[b].data = NoData
              /\ nvmd.blocks[b].prio_adds = 1
              /\ \/ InList(nvmd.pools[block_pool(b)].prio_list, b)
                 \/ nvmd.blocks[b].gc_running # 0
        /\ nvmd.blocks[b].data_cmnt_size < nr_host_pages_in_blk \/ Committing(b) =>
              /\ nvmd.blocks[b].prio_adds = 0
              /\ ~InList(nvmd.pools[block_pool(b)].prio_list, b)
        /\ Cardinality({k \in 1 .. Len(nvmd.pools[block_pool(b)].prio_list) :
                           nvmd.pools[block_pool(b)].prio_list[k] = b}) <= 1

\* a block is fully committed and on prio_list in its second activation
C7_Witness ==
    \E b \in Blocks(nvmd) :
        /\ nvmd.blocks[b].data_cmnt_size = nr_host_pages_in_blk
        /\ InList(nvmd.pools[block_pool(b)].prio_list, b)
        /\ nvmd.blocks[b].data = NoData
        /\ \E c \in Blocks(nvmd) : c # b /\ nvmd.blocks[c].gc_running # 0

\* the step in which nvm_endio completes the host read r upstream
ReadCompletes(r) ==
    /\ bios[r].pc = "endio_fin"
    /\ bios[r].rw = READ
    /\ bios'[r].pc = "idle"

\* C8 as stated: no read is completed by nvm_endio against a page of a block
\* whose gc_running is set.
C8_Stated ==
    [][\A r \in HostBios :
          ReadCompletes(r) => nvmd.blocks[bios[r].addr.block].gc_running = 0]_vars

\* the step in which nvm_read_bio takes the host read r past its lookup:
\* to the device (or the pool's queue), or to the zero-fill
ReadPasses(r) ==
    /\ bios[r].pc \in {"idle", "deferred"}
    /\ bios'[r].pc \in {"zfill", "waiting", "dev"}
    /\ bios'[r].rw = READ

\* the step in which nvm_read_bio defers the host read r
ReadDefers(r) ==
    /\ bios[r].pc = "idle"
    /\ bios'[r].pc = "deferred"
    /\ bios'[r].rw = READ

\* C8 as amended: a read whose lookup finds gc_running set on the block of
\* its forward entry is deferred: no read passes its lookup to the device
\* or to the zero-fill while the block its address maps to has gc_running
\* set, and a deferred read is on deferred_bios with its address lock
\* released and the collector kicked.  (A read submitted before the
\* collector set gc_running may complete while it is set.)
C8_ReadDeferred ==
    [][\A r \in HostBios :
          /\ ReadPasses(r) =>
                LET e == nvmd.trans_map[bios'[r].l_addr]
                IN  /\ bios'[r].addr = e
                    /\ e.block # NULL => nvmd.blocks[e.block].gc_running = 0
          /\ ReadDefers(r) =>
                /\ nvmd'.deferred_bios = Append(nvmd.deferred_bios, r)
                /\ ~addr_is_locked(nvmd', ReadLAddr(bios'[r]))
                /\ nvmd'.gc_kicked]_vars

\* a host read is parked on deferred_bios while the block of its address is
\* being collected
C8_Witness ==
    \E r \in HostBios :
        /\ bios[r].pc = "deferred"
        /\ bios[r].rw = READ
        /\ InList(nvmd.deferred_bios, r)
        /\ nvmd.trans_map[ReadLAddr(bios[r])].block # NULL
        /\ nvmd.blocks[nvmd.trans_map[ReadLAddr(bios[r])].block].gc_running # 0

\* C9: a read of l that follows the completion of the last write of l is
\* translated to the address that write was given and returns its payload.
\* (The read holds the address lock from its lookup on, so the last write
\* mapped to l has completed; expect is its payload.)
C9_ReadYourWrite ==
    \A r \in HostBios :
        bios[r].rw = READ /\ bios[r].pc = "endio_fin" =>
            /\ bios[r].addr.addr = nvmd.trans_map[bios[r].l_addr].addr
            /\ bios[r].data = bios[r].expect

\* the step in which nvm_read_bio takes the host read r of an address that
\* has no forward entry
UnwrittenRead(r, l) ==
    /\ bios[r].pc = "idle"
    /\ bios'[r].pc # "idle"
    /\ bios'[r].rw = READ
    /\ l = IF bios'[r].pc = "deferred" THEN ReadLAddr(bios'[r]) ELSE bios'[r].l_addr
    /\ nvmd.trans_map[l].block = NULL

\* the step in which the zero-fill branch of nvm_read_bio returns
ZeroFillReturns(r) ==
    /\ bios[r].pc = "zfill"
    /\ bios'[r].pc # "zfill"

WriteDefers(r) ==
    /\ bios'[r].pc = "deferred"
    /\ bios'[r].rw = WRITE
    /\ \/ bios[r].pc = "idle"
       \/ /\ bios[r].pc = "deferred"
          /\ kdefer.chain # << >>
          /\ Head(kdefer.chain) = r
          /\ kdefer'.chain = Tail(kdefer.chain)

\* no block for a host append point: the current block of the append point
\* the write is sent to is full and its pool refuses a block to the host
HostExhausted(nv) ==
    LET ap == get_next_ap(nv).ret
        pool == block_pool(nv.aps[ap].cur)
    IN  /\ block_is_full(nv.blocks[nv.aps[ap].cur])
        /\ \/ nv.pools[pool].free_list = << >>
           \/ nv.pools[pool].nr_free_blocks < nv.nr_aps

\* C11: when map_ltop has no address for a host write, nvm_write_bio returns
\* NVM_WRITE_DEFERRED with the bio at the tail of deferred_bios, the lock of
\* its address released and the collector kicked; nothing else of the
\* instance changes (maps, bitmaps, pools, blocks, append points), and a
\* host write is deferred only when no block is left for the host.
C11_WriteDeferred ==
    [][\A r \in HostBios :
          WriteDefers(r) =>
              /\ HostExhausted(nvmd)
              /\ ~addr_is_locked(nvmd', ReadLAddr(bios'[r]))
              /\ nvmd'.gc_kicked
              /\ nvmd' = [nvmd EXCEPT
                            !.deferred_bios = Append(@, r),
                            !.gc_kicked = TRUE,
                            !.next_write_ap = get_next_ap(nvmd).ret]]_vars

\* a host write is parked on deferred_bios with its address unlocked
C11_Witness ==
    \E r \in HostBios :
        /\ bios[r].pc = "deferred"
        /\ bios[r].rw = WRITE
        /\ InList(nvmd.deferred_bios, r)
        /\ ~addr_is_locked(nvmd, ReadLAddr(bios[r]))
        /\ nvmd.gc_kicked

\* the steps of the FTL, the device and the collector: all but the host's
System ==
    \/ \E r \in HostBios : ReadFinished(r)
    \/ \E r \in Bios : WriteIssue(r)
    \/ \E r \in Bios : DeviceComplete(r)
    \/ \E r \in Bios : EndioCommit(r)
    \/ \E r \in Bios : EndioFinish(r)
    \/ \E pool \in Pools(nvmd) : WorkerRun(pool)
    \/ \E pool \in Pools(nvmd) : WorkerSubmit(pool)
    \/ DeferredRun
    \/ DeferredDispatch
    \/ GcPick
    \/ GcRead
    \/ GcWrite
    \/ GcPut

\* what the scheduling guarantees: while a thread inside the FTL can go on,
\* queued work is waiting for its workqueue, the device holds a bio or the
\* collector has work, one of them takes a step; nothing is assumed of the
\* host, and nothing of the order among them
Fairness == WF_vars(System)

\* one host thread, which issues its next request when the last one has
\* completed, beside the workers, the device and the collector
NextOneHost ==
    \/ HostRead(1)
    \/ HostWrite(1)
    \/ \E r \in HostBios : ReadFinished(r)
    \/ \E r \in Bios : WriteIssue(r)
    \/ \E pool \in Pools(nvmd) : WorkerRun(pool)
    \/ \E pool \in Pools(nvmd) : WorkerSubmit(pool)
    \/ \E r \in Bios : DeviceComplete(r)
    \/ \E r \in Bios : EndioCommit(r)
    \/ \E r \in Bios : EndioFinish(r)
    \/ DeferredRun
    \/ DeferredDispatch
    \/ GcPick
    \/ GcRead
    \/ GcWrite
    \/ GcPut

FairOneHost == Init /\ [][NextOneHost]_vars /\ Fairness

----------------------------------------------------------------------------
(* The request wrapper (per_bio_data) on its own.  A bio is here the       *)
(* record of the two fields the wrapper saves, bi_end_io and bi_private;   *)
(* the upstream hooks and cookies are names, the device's error codes are  *)
(* 0, -EIO and -ENOMEM.  In this specification bios[r] is one request: the *)
(* bio handed to nvm_submit_bio, its wrapper, the original bio when the    *)
(* submitted one is a child, the completion when there is one; hist.calls  *)
(* is the list of the completions the FTL has made.  A pointer to a bio is *)
(* the empty sequence when it is NULL and the sequence of the bio when not.*)

Hooks == {"end_io_a", "end_io_b"}
Cookies == {"cookie_a", "cookie_b"}
Errs == {0, -5, -12}
nvm_end_read_bio == "nvm_end_read_bio"
nvm_end_write_bio == "nvm_end_write_bio"
\* a hook or a cookie that is NULL
NoHook == "NULL"

\* core.c:4-19: the wrapper keeps the bio's hook and cookie, the bio's
\* cookie becomes the wrapper
alloc_init_pbd(bio) ==
    [pb  |-> [bi_end_io |-> bio.bi_end_io, bi_private |-> bio.bi_private],
     bio |-> [bio EXCEPT !.bi_private = "pb"]]

\* the hook is left as the FTL set it
exit_pbd_keep(pb, bio) == [bio EXCEPT !.bi_private = pb.bi_private]

\* core.c:27-31
exit_pbd(pb, bio) ==
    [bio EXCEPT !.bi_private = pb.bi_private, !.bi_end_io = pb.bi_end_io]

\* core.c:657-675: nvm_submit_bio wraps the bio and takes its completion
nvm_submit_bio_wrap(rw, bio, orig_bio, sync) ==
    With(alloc_init_pbd(bio), LAMBDA a :
    [pc |-> "dev", rw |-> rw,
     bio |-> [a.bio EXCEPT !.bi_end_io = IF rw = WRITE THEN nvm_end_write_bio
                                                      ELSE nvm_end_read_bio],
     pb |-> [bi_end_io |-> a.pb.bi_end_io, bi_private |-> a.pb.bi_private,
             orig_bio |-> orig_bio, event |-> sync],
     \* observation only: what upstream gave, what the device said
     up |-> IF orig_bio = << >> THEN bio ELSE orig_bio[1],
     err |-> 0])

\* a call of a completion hook: whose request, which hook, the cookie the
\* bio carried at the call, the error code passed
Call(r, bio, err) ==
    [req |-> r, hook |-> bio.bi_end_io, cookie |-> bio.bi_private, err |-> err]

\* core.c:499-512: strip the wrapper, call the bio's hook if it has one,
\* complete the original bio if one was attached (bio_endio calls its hook),
\* signal the completion
nvm_endio_hooks(calls, r, q, err) ==
    With(exit_pbd(q.pb, q.bio), LAMBDA bio :
    [bio   |-> bio,
     calls |-> calls
               \o (IF bio.bi_end_io # NoHook THEN <<Call(r, bio, err)>> ELSE << >>)
               \o (IF q.pb.orig_bio # << >>
                   THEN <<Call(r, q.pb.orig_bio[1], err)>> ELSE << >>)
               \o (IF q.pb.event
                   THEN <<[req |-> r, hook |-> "complete", cookie |-> NoHook,
                           err |-> 0]>>
                   ELSE << >>)])

NoRequest == [pc |-> "idle"]

PbdInit ==
    /\ nvmd = nvm_init(1, {})
    /\ bios = [r \in Bios |-> NoRequest]
    /\ media = << >>
    /\ kbiod = << >>
    /\ kdefer = << >>
    /\ gc = << >>
    /\ hist = [calls |-> << >>]

\* nvm_read_bio, core.c:568: a host read is submitted as it came
PbdRead(r) ==
    /\ bios[r].pc = "idle"
    /\ \E h \in Hooks, c \in Cookies :
          bios' = [bios EXCEPT ![r] =
                      nvm_submit_bio_wrap(READ, [bi_end_io |-> h, bi_private |-> c],
                                          << >>, FALSE)]
    /\ UNCHANGED <<nvmd, media, kbiod, kdefer, gc, hist>>

\* nvm_write_bio, core.c:629-635: a write is submitted as a bio of the
\* FTL's own (bio_alloc: no hook, no cookie); a host write is attached as
\* the original bio, a write of the collector has a completion instead
PbdWrite(r) ==
    /\ bios[r].pc = "idle"
    /\ \E h \in Hooks, c \in Cookies, complete_bio \in BOOLEAN :
          bios' = [bios EXCEPT ![r] =
                      nvm_submit_bio_wrap(WRITE,
                          [bi_end_io |-> NoHook, bi_private |-> NoHook],
                          IF complete_bio
                          THEN <<[bi_end_io |-> h, bi_private |-> c]>> ELSE << >>,
                          ~complete_bio)]
    /\ UNCHANGED <<nvmd, media, kbiod, kdefer, gc, hist>>

\* the device completes the bio with its error code: bi_end_io is
\* nvm_end_read_bio or nvm_end_write_bio, which call nvm_endio(bio, err)
PbdDevice(r) ==
    /\ bios[r].pc = "dev"
    /\ \E err \in Errs : bios' = [bios EXCEPT ![r].pc = "endio", ![r].err = err]
    /\ UNCHANGED <<nvmd, media, kbiod, kdefer, gc, hist>>

PbdEndio(r) ==
    /\ bios[r].pc = "endio"
    /\ \E res \in {nvm_endio_hooks(hist.calls, r, bios[r], bios[r].err)} :
          /\ bios' = [bios EXCEPT ![r].pc = "done", ![r].bio = res.bio]
          /\ hist' = [hist EXCEPT !.calls = res.calls]
    /\ UNCHANGED <<nvmd, media, kbiod, kdefer, gc>>

PbdNext ==
    \/ \E r \in HostBios : PbdRead(r)
    \/ \E r \in Bios : PbdWrite(r)
    \/ \E r \in Bios : PbdDevice(r)
    \/ \E r \in Bios : PbdEndio(r)

PbdSpec == PbdInit /\ [][PbdNext]_vars

CallsOf(r) == {i \in DOMAIN hist.calls : hist.calls[i].req = r
                                          /\ hist.calls[i].hook # "complete"}

\* C13: nothing is completed before the request is inside nvm_endio; once
\* nvm_endio has finished, the bio carries again the hook and the cookie it
\* had when it was submitted, the upstream hook (of the bio itself for a
\* read, of the original bio for a host write) has been called exactly once,
\* with the upstream cookie on the bio and with the error code the device
\* gave; a bio without an upstream hook and without an original bio
\* completes nothing upstream.
C13_HookRestored ==
    \A r \in Bios :
        /\ bios[r].pc \in {"idle", "dev", "endio"} => CallsOf(r) = {}
        /\ bios[r].pc = "done" =>
              /\ bios[r].bio.bi_end_io = bios[r].pb.bi_end_io
              /\ bios[r].bio.bi_private = bios[r].pb.bi_private
              /\ IF bios[r].up.bi_end_io = NoHook
                 THEN CallsOf(r) = {}
                 ELSE /\ Cardinality(CallsOf(r)) = 1
                      /\ \A i \in CallsOf(r) :
                            /\ hist.calls[i].hook = bios[r].up.bi_end_io
                            /\ hist.calls[i].cookie = bios[r].up.bi_private
                            /\ hist.calls[i].err = bios[r].err

\* a read and a host write have both completed with an error
C13_Witness ==
    \E r, w \in Bios :
        /\ bios[r].pc = "done" /\ bios[r].rw = READ /\ bios[r].err # 0
        /\ bios[w].pc = "done" /\ bios[w].rw = WRITE /\ bios[w].err # 0
        /\ bios[w].pb.orig_bio # << >>
        /\ Cardinality(CallsOf(r)) = 1
        /\ Cardinality(CallsOf(w)) = 1

----------------------------------------------------------------------------

\* core.c:402-421: the address nvm_map_ltop_rr gets for a write, before it
\* updates the map
MapAlloc(nv, is_gc) ==
    With(IF ~is_gc THEN get_next_ap(nv)
         ELSE [nvmd |-> nv, ret |-> max_free_pool(nv)], LAMBDA sel :
    nvm_alloc_addr_from_ap(sel.nvmd, sel.ret, is_gc))

\* nv2 is nv with the mapping of l_addr replaced by p, as the claim has it
Replaced(nv, l_addr, p, nv2) ==
    With(nv.trans_map[l_addr], LAMBDA gp :
    With(gp.addr % nr_host_pages_in_blk, LAMBDA bit :
        /\ bit \notin nv.blocks[gp.block].invalid_pages
        /\ nv2.blocks[gp.block].invalid_pages =
               nv.blocks[gp.block].invalid_pages \cup {bit}
        /\ nv2.blocks[gp.block].nr_invalid_pages =
               nv.blocks[gp.block].nr_invalid_pages + 1
        /\ nv2.rev_trans_map[gp.addr].addr = LTOP_POISON
        /\ \A b \in Blocks(nv) \ {gp.block} : nv2.blocks[b] = nv.blocks[b]
        /\ \A m \in DOMAIN nv.trans_map \ {l_addr} : nv2.trans_map[m] = nv.trans_map[m]
        /\ nv2.trans_map[l_addr] = [addr |-> p.addr, block |-> p.block]
        /\ nv2.rev_trans_map[p.addr].addr = l_addr
        /\ \A q \in DOMAIN nv.rev_trans_map \ {gp.addr, p.addr} :
               nv2.rev_trans_map[q] = nv.rev_trans_map[q]))

\* C14: in every reachable state, for a host write and for a collector write
\* of every logical address that is mapped, to the page the allocator gives:
\* nvm_update_map sets in the old block exactly the bit of the old page
\* (old address mod nr_host_pages_in_blk), which was clear, adds one to its
\* nr_invalid_pages, poisons the reverse entry of the old page, and changes
\* no other block and no other forward entry.
C14_UpdateMap ==
    \A is_gc \in BOOLEAN :
        \A a \in {MapAlloc(nvmd, is_gc)} :
            (a.ret # NoAddr /\ ~a.nvmd.fatal) =>
                \A l_addr \in DOMAIN nvmd.trans_map :
                    nvmd.trans_map[l_addr].block # NULL =>
                        Replaced(a.nvmd, l_addr, a.ret,
                                 nvm_update_map(a.nvmd, l_addr, a.ret, is_gc))

\* a mapping has been replaced and another one can be: a page is poisoned
\* in a block with one invalid page, while an address is mapped and the
\* allocator has a page for a host write
C14_Witness ==
    /\ \E q \in DOMAIN nvmd.rev_trans_map, b \in Blocks(nvmd) :
          /\ nvmd.rev_trans_map[q].addr = LTOP_POISON
          /\ nvmd.blocks[b].invalid_pages = {q % nr_host_pages_in_blk}
          /\ block_to_addr(b) <= q /\ q < block_to_addr(b) + nr_host_pages_in_blk
    /\ \E l_addr \in DOMAIN nvmd.trans_map : nvmd.trans_map[l_addr].block # NULL
    /\ MapAlloc(nvmd, FALSE).ret # NoAddr

----------------------------------------------------------------------------
(* The allocator on its own, with two append points (and so two pools):    *)
(* the host and the collector ask an append point for a page, the          *)
(* collector puts a block back that has been written to its end.  Here     *)
(* hist.refused is the set of pools that have refused the host a block     *)
(* since a block was last put back, hist.gc_after the pools where the      *)
(* collector was given a block after such a refusal.                       *)

AllocInit ==
    /\ nvmd = nvm_init(2, {})
    /\ bios = << >>
    /\ media = << >>
    /\ kbiod = << >>
    /\ kdefer = << >>
    /\ gc = << >>
    /\ hist = [refused |-> {}, gc_after |-> {}]

\* the pool of the append point gave out a block in this call
TookBlock(nv, nv2, ap) ==
    nv2.pools[ap].nr_free_blocks < nv.pools[ap].nr_free_blocks

\* core.c:515: the handle of the address goes back to addr_pool when the
\* write has completed
HandleFreed(nv, nv2) == [nv2 EXCEPT !.addr_pool = nv.addr_pool]

\* nvm_map_ltop_rr for a host write: nvm_alloc_addr_from_ap(ap, 0)
AllocHost(ap) ==
    /\ Running
    /\ \E a \in {nvm_alloc_addr_from_ap(nvmd, ap, FALSE)} :
          /\ nvmd' = HandleFreed(nvmd, a.nvmd)
          /\ hist' = [hist EXCEPT !.refused =
                         IF /\ a.ret = NoAddr
                            /\ nvmd.pools[ap].free_list # << >>
                         THEN @ \cup {ap} ELSE @]
    /\ UNCHANGED <<bios, media, kbiod, kdefer, gc>>

\* nvm_map_ltop_rr for a collector write: nvm_alloc_addr_from_ap(ap, 1)
AllocGc(ap) ==
    /\ Running
    /\ \E a \in {nvm_alloc_addr_from_ap(nvmd, ap, TRUE)} :
          /\ nvmd' = HandleFreed(nvmd, a.nvmd)
          /\ hist' = [hist EXCEPT !.gc_after =
                         IF ap \in hist.refused /\ TookBlock(nvmd, a.nvmd, ap)
                         THEN @ \cup {ap} ELSE @]
    /\ UNCHANGED <<bios, media, kbiod, kdefer, gc>>

\* gc.c: a block written to its end, emptied by the collector, is put back
AllocPut(b) ==
    /\ Running
    /\ InList(nvmd.pools[block_pool(b)].used_list, b)
    /\ block_is_full(nvmd.blocks[b])
    /\ \A ap \in Pools(nvmd) : nvmd.aps[ap].gc_cur # b
    /\ nvmd' = nvm_pool_put_block(nvmd, b)
    /\ hist' = [hist EXCEPT !.refused = @ \ {block_pool(b)},
                            !.gc_after = @ \ {block_pool(b)}]
    /\ UNCHANGED <<bios, media, kbiod, kdefer, gc>>

AllocNext ==
    \/ \E ap \in Pools(nvmd) : AllocHost(ap)
    \/ \E ap \in Pools(nvmd) : AllocGc(ap)
    \/ \E b \in Blocks(nvmd) : AllocPut(b)

AllocSpec == AllocInit /\ [][AllocNext]_vars

\* C15: in every reachable state and every pool, nvm_pool_get_block for the
\* host gives no block and changes nothing when nr_free_blocks < nr_aps, and
\* when it gives one it leaves nr_free_blocks >= nr_aps - 1; for the
\* collector it gives the head of free_list whenever free_list is not empty.
C15_Reserve ==
    \A pool \in Pools(nvmd) :
        /\ \A h \in {nvm_pool_get_block(nvmd, pool, FALSE)} :
              /\ nvmd.pools[pool].nr_free_blocks < nvmd.nr_aps =>
                     h.ret = NULL /\ h.nvmd = nvmd
              /\ h.ret # NULL =>
                     h.nvmd.pools[pool].nr_free_blocks >= nvmd.nr_aps - 1
        /\ \A g \in {nvm_pool_get_block(nvmd, pool, TRUE)} :
              nvmd.pools[pool].free_list # << >> =>
                  /\ g.ret = Head(nvmd.pools[pool].free_list)
                  /\ InList(g.nvmd.pools[pool].used_list, g.ret)
                  /\ g.nvmd.pools[pool].nr_free_blocks =
                         nvmd.pools[pool].nr_free_blocks - 1

\* a pool refused the host while it had a free block, and then gave the
\* collector its last one
C15_Witness ==
    \E pool \in Pools(nvmd) :
        /\ pool \in hist.refused
        /\ pool \in hist.gc_after
        /\ nvmd.pools[pool].free_list = << >>
        /\ ~nvmd.fatal

----------------------------------------------------------------------------
(* One host thread that only writes, over more logical addresses and for   *)
(* longer than the hosts of Spec, on an instance without                   *)
(* NVM_OPT_POOL_SERIALIZE: long enough for the collector to fill its own   *)
(* block.  The host is the environment: it is taken to submit only while   *)
(* the collector is not at work on a block; its write then runs beside the *)
(* collector.                                                              *)

MaxSeqLAddr == 3
MaxSeqOps == 6

\* the host submits its next write while the collector is between two
\* blocks
SeqWrite ==
    /\ Running
    /\ hist.ops < MaxSeqOps
    /\ bios[1].pc = "idle"
    /\ gc.pc = "idle"
    /\ \E l \in 0 .. MaxSeqLAddr - 1, v \in Payloads :
          DoWrite(1, [IdleBio EXCEPT !.rw = WRITE, !.bi_sector = l * NR_PHY_IN_LOG,
                                     !.data = v])
    /\ UNCHANGED <<media, kbiod, kdefer, gc>>

SeqNext ==
    \/ SeqWrite
    \/ \E r \in Bios : WriteIssue(r)
    \/ \E r \in Bios : DeviceComplete(r)
    \/ \E r \in Bios : EndioCommit(r)
    \/ \E r \in Bios : EndioFinish(r)
    \/ DeferredRun
    \/ DeferredDispatch
    \/ GcPick
    \/ GcRead
    \/ GcWrite
    \/ GcPut

SeqSpec == InitWith(1, {{}}) /\ [][SeqNext]_vars

\* the collector has read a page that is still valid and is about to write
\* it: nvm_write_bio(is_gc = 1), nvm_map_ltop_rr, nvm_alloc_addr_from_ap
GcWrites ==
    /\ ~nvmd.fatal
    /\ gc.pc = "read"
    /\ bios[GcBio].pc = "done"
    /\ ~addr_is_locked(nvmd, gc.l_addr)
    /\ nvmd.rev_trans_map[gc.addr].addr = gc.l_addr

\* the append point has no page left for the collector
GcExhausted(nv, ap) ==
    /\ block_is_full(nv.blocks[nv.aps[ap].cur])
    /\ nv.aps[ap].gc_cur # NULL
    /\ block_is_full(nv.blocks[nv.aps[ap].gc_cur])
    /\ nv.pools[ap].free_list = << >>

\* C16: when the collector calls nvm_alloc_addr_from_ap(ap, 1) while the
\* current block and the gc block of the append point are full and the
\* pool's free_list is empty, the call returns no address, leaves the
\* machine running, and leaves ap->cur, ap->gc_cur and every block as they
\* were.
C16_GcAllocFails ==
    GcWrites =>
        \A ap \in {max_free_pool(nvmd)} :
            GcExhausted(nvmd, ap) =>
                \A a \in {nvm_alloc_addr_from_ap(nvmd, ap, TRUE)} :
                    /\ a.ret = NoAddr
                    /\ ~a.nvmd.fatal
                    /\ a.nvmd.aps = nvmd.aps
                    /\ a.nvmd.blocks = nvmd.blocks

----------------------------------------------------------------------------

----------------------------------------------------------------------------
(* The physical-address allocator on its own.  Its callers, a host writer  *)
(* and the collector, call nvm_alloc_phys_addr on the blocks in use in any *)
(* order; the call runs under block->lock from its first statement to its  *)
(* last, so concurrent calls on a block are calls one after the other in   *)
(* some order.  Blocks are activated with nvm_pool_get_block and put back  *)
(* when written to their end.  hist.log[b] is the list of the calls on     *)
(* block b since its activation: who called, what was returned; it is      *)
(* empty for a block that is free.                                         *)

Callers == {"host", "gc"}

\* calls that may still be made on a block after it has refused one
MaxEmptyCalls == 2

PhysInit ==
    /\ nvmd = nvm_init(1, {})
    /\ bios = << >>
    /\ media = << >>
    /\ kbiod = << >>
    /\ kdefer = << >>
    /\ gc = << >>
    /\ hist = [log |-> [b \in Blocks(nvm_init(1, {})) |-> << >>]]

Refusals(log) == Len(SelectSeq(log, LAMBDA c : c.ret = LTOP_EMPTY))

PhysAlloc(t, b) ==
    /\ InList(nvmd.pools[block_pool(b)].used_list, b)
    /\ Refusals(hist.log[b]) < MaxEmptyCalls
    /\ \E a \in {nvm_alloc_phys_addr(nvmd, b)} :
          /\ nvmd' = a.nvmd
          /\ hist' = [hist EXCEPT !.log[b] = Append(@, [by |-> t, ret |-> a.ret])]
    /\ UNCHANGED <<bios, media, kbiod, kdefer, gc>>

PhysGet(pool, is_gc) ==
    /\ \E g \in {nvm_pool_get_block(nvmd, pool, is_gc)} :
          /\ g.ret # NULL
          /\ nvmd' = g.nvmd
          /\ hist' = [hist EXCEPT !.log[g.ret] = << >>]
    /\ UNCHANGED <<bios, media, kbiod, kdefer, gc>>

PhysPut(b) ==
    /\ InList(nvmd.pools[block_pool(b)].used_list, b)
    /\ block_is_full(nvmd.blocks[b])
    /\ nvmd' = nvm_pool_put_block(nvmd, b)
    /\ hist' = [hist EXCEPT !.log[b] = << >>]
    /\ UNCHANGED <<bios, media, kbiod, kdefer, gc>>

PhysNext ==
    \/ \E t \in Callers, b \in Blocks(nvmd) : PhysAlloc(t, b)
    \/ \E pool \in Pools(nvmd), is_gc \in BOOLEAN : PhysGet(pool, is_gc)
    \/ \E b \in Blocks(nvmd) : PhysPut(b)

PhysSpec == PhysInit /\ [][PhysNext]_vars

\* the addresses the successful calls returned, in the order of the calls
Given(log) == SelectSeq(log, LAMBDA c : c.ret # LTOP_EMPTY)

----------------------------------------------------------------------------

\* the pool has somebody to hand its next waiting bio to the device: a bio
\* of the pool is at the device or inside nvm_endio (which queues the
\* worker), the worker is queued, or the worker is running
PoolAdvances(pool) ==
    \/ InFlight(pool) # {}
    \/ nvmd.pools[pool].waiting_ws
    \/ kbiod[pool].pc = "submit"

\* what C19 says of every state
PoolNotStuck ==
    Serialized(nvmd) =>
        \A pool \in Pools(nvmd) :
            /\ nvmd.pools[pool].is_active \in {0, 1}
            /\ nvmd.pools[pool].waiting_bios # << >> => PoolAdvances(pool)
            /\ nvmd.pools[pool].waiting_bios # << >> => nvmd.pools[pool].is_active = 1

\* C19: with NVM_OPT_POOL_SERIALIZE, while queued work runs and the device
\* completes what it holds: in every state is_active is 0 or 1 (outside the
\* critical sections of waiting_lock) and a pool with a bio on waiting_bios
\* has a bio in flight, its worker queued or its worker running; and every
\* bio pushed on waiting_bios is handed to the device in the end.
C19_Handed ==
    /\ []PoolNotStuck
    /\ \A r \in Bios : (bios[r].pc = "waiting") ~> (bios[r].pc = "dev")

\* a bio waits behind one that is at the device while the worker is neither
\* queued nor running: only the completion can make the pool advance
C19_Witness ==
    /\ Serialized(nvmd)
    /\ \E pool \in Pools(nvmd) :
          /\ nvmd.pools[pool].waiting_bios # << >>
          /\ \E r \in InFlight(pool) : bios[r].pc = "dev"
          /\ ~nvmd.pools[pool].waiting_ws
          /\ kbiod[pool].pc = "idle"
          /\ nvmd.pools[pool].is_active = 1

----------------------------------------------------------------------------

====
